---- MODULE Spec2Model ----
(***************************************************************************)
(* The remote session RPC client of packages/core/examples/stagehand.py:   *)
(* one Stagehand handle (session_id, verbose, _client), the lifecycle      *)
(* calls init/close, and _execute, which posts one operation and decodes   *)
(* the streamed "data: " lines into a result or a failure.                 *)
(*                                                                         *)
(* Calls are serialized here: one call of the handle is in flight at a     *)
(* time (pc = "idle" between calls).  The server and the transport are the *)
(* environment: they choose the response status, every line of the stream, *)
(* the end of the stream and transport failures.                           *)
(***************************************************************************)
EXTENDS Integers, Sequences, FiniteSets, TLC

\* The longest stream prefix a call of act reads before the stream must end.
MaxLines == 3

\* The same for each of the calls that run concurrently.
MaxTaskLines == 2

\* self.timeout, in units of time; the clock stops at MaxClock.
Timeout == 2

MaxClock == 4

\* The same for a call of another method: the loop over the lines is the
\* same code for all of them, so long streams are explored for act only.
MaxLinesOther == 1

(***************************************************************************)
(* Python and JSON values                                                  *)
(***************************************************************************)
\* Python's None.
PyNone == "None"

\* A key that a JSON object does not hold.
Absent == "<absent>"

\* The JSON texts a server may send as the value of "result".
JsonValues == {"null", "false", "{\"ok\":true}"}

\* json.loads on a JSON value: null becomes None, false becomes False, an
\* object becomes a dict.
JsonLoadsValue(j) ==
    CASE j = "null" -> PyNone
      [] j = "false" -> "False"
      [] j = "{\"ok\":true}" -> "{'ok': True}"
      [] OTHER -> j

\* bool(v) of a session identifier: None and "" are falsy.
Truthy(v) == v # PyNone /\ v # ""

\* d.get(k, default) of a decoded JSON object d that holds the keys ks, and
\* val under k.
DictGet(ks, k, val, default) == IF k \in ks THEN val ELSE default

(***************************************************************************)
(* Exceptions                                                              *)
(***************************************************************************)
Raise(cls, msg) == [cls |-> cls, msg |-> msg]

NoExc == Raise("", "")
NoRet == "<no return>"

\* raise StagehandError("Not initialized. Call init() first.")
NotInitialized == Raise("StagehandError", "Not initialized. Call init() first.")

\* raise StagehandError("Already initialized. Call close() first.")
AlreadyInitialized == Raise("StagehandError", "Already initialized. Call close() first.")

\* raise StagehandAPIError("No result received from server")
NoResultReceived == Raise("StagehandAPIError", "No result received from server")

\* raise StagehandAPIError("Server did not return a sessionId")
NoSessionId == Raise("StagehandAPIError", "Server did not return a sessionId")

\* raise StagehandAPIError(event_data["error"])
ErrorFrameFailure(payload) == Raise("StagehandAPIError", payload)

\* The non-2xx status codes a server answers with (as printed by f"{code}").
ErrorStatuses == {"404", "500"}

\* Mutant: the handler of httpx.HTTPError comes first and catches the
\* HTTPStatusError too.
HttpStatusFailure_AsConnectionError(code, readable) ==
    Raise("StagehandConnectionError", "Connection error")

\* raise StagehandAPIError(f"HTTP {status}[: {body}]")
HttpStatusFailure(code, readable) ==
    Raise("StagehandAPIError",
          IF readable THEN ("HTTP " \o code) \o ": body" ELSE "HTTP " \o code)

\* Mutant: no handler for httpx.HTTPError, the transport's exception escapes.
ConnectionFailure_Unwrapped == Raise("httpx.ReadTimeout", "timed out")

\* raise StagehandConnectionError(f"Connection error: {e}")
ConnectionFailure == Raise("StagehandConnectionError", "Connection error")

\* raise StagehandConnectionError(f"Failed to connect to server: {e}")
StartConnectionFailure == Raise("StagehandConnectionError", "Failed to connect to server")

\* Exceptions that are not StagehandError: raised by the interpreter or httpx
\* and caught by no handler of the client.
AttributeError == Raise("AttributeError", "object has no attribute 'get'")
JSONDecodeError == Raise("JSONDecodeError", "Expecting value")
ClientClosedError == Raise("RuntimeError", "Cannot send a request, as the client has been closed.")

(***************************************************************************)
(* The wire: lines of the streamed response                                *)
(***************************************************************************)
\* The data object of an event: the keys it holds and their values.
\* (Records that are values of definitions are written with their fields in
\* the order of the names' first use in the module, the order TLC keeps them
\* in.)
EventData(isdict, keys, message, level, status, result, error) ==
    [isdict |-> isdict, keys |-> keys, message |-> message, level |-> level,
     status |-> status, result |-> result, error |-> error]

EmptyData == EventData(TRUE, {}, Absent, 0, Absent, Absent, Absent)

\* "data": 5, a data field that is no object.
ScalarData == EventData(FALSE, {}, Absent, 0, Absent, Absent, Absent)

\* A line: the text up to the payload, and the payload after "data: ".
\* json is "invalid" (json.loads raises), "scalar" (valid JSON, no object) or
\* "object".
Line(text, json, type, data) ==
    [text |-> text, json |-> json, type |-> type, data |-> data]

\* Lines the loop skips: a whitespace line, a comment or keepalive without
\* the prefix, a prefixed line that is no JSON.
NonFrameLines ==
    { Line("   ", "invalid", Absent, EmptyData),
      Line(": keepalive", "invalid", Absent, EmptyData),
      Line("data: ", "invalid", Absent, EmptyData) }

\* data: 5
ScalarLines == { Line("data: ", "scalar", Absent, EmptyData) }

LogMessage(level) ==
    CASE level = 0 -> "m0" [] level = 1 -> "m1" [] level = 2 -> "m2" [] OTHER -> "m?"

\* data: {"type":"log","data":{"category":"c","message":m,"level":L}}
LogFrame(level) ==
    Line("data: ", "object", "log",
         EventData(TRUE, {"category", "message", "level"}, LogMessage(level), level,
                   Absent, Absent, Absent))

\* A log frame whose data is no object.
LogFrameScalarData == Line("data: ", "object", "log", ScalarData)

LogLines == { LogFrame(l) : l \in 0..2 } \cup { LogFrameScalarData }

\* data: {"type":"system","data":{["status":s,]["result":r,]["error":e]}}
SystemFrame(status, result, error) ==
    Line("data: ", "object", "system",
         EventData(TRUE,
                   (IF status = Absent THEN {} ELSE {"status"})
                     \cup (IF result = Absent THEN {} ELSE {"result"})
                     \cup (IF error = Absent THEN {} ELSE {"error"}),
                   Absent, 0, status, result, error))

\* The system frames of the model: a result, an error, both (with one result
\* value) or neither, with and without the terminal status; a frame with a
\* status that is not terminal; a frame whose data is no object.
SystemLines ==
    { SystemFrame(s, r, Absent) : s \in {Absent, "finished"}, r \in JsonValues }
    \cup { SystemFrame(s, r, "boom") : s \in {Absent, "finished"},
                                       r \in {Absent, "{\"ok\":true}"} }
    \cup { SystemFrame("finished", Absent, Absent),
           SystemFrame("running", Absent, Absent),
           Line("data: ", "object", "system", ScalarData) }

\* Frames whose type is neither "log" nor "system", or is missing.
OtherLines ==
    { Line("data: ", "object", "other",
           EventData(TRUE, {"status", "result", "error"}, Absent, 0,
                     "finished", "{\"ok\":true}", "boom")),
      Line("data: ", "object", Absent, EmptyData) }

Lines == NonFrameLines \cup ScalarLines \cup LogLines \cup SystemLines \cup OtherLines

\* str.strip() of the line is empty.
StripIsEmpty(line) == line.text = "   "

\* line.startswith("data: ")
StartsWithPrefix(line) == line.text = "data: "

\* The loop's first test: blank lines and lines without the prefix.
Skipped(line) == StripIsEmpty(line) \/ ~StartsWithPrefix(line)

\* json.loads(line[6:]) raises JSONDecodeError.
JsonInvalid(line) == line.json = "invalid"

\* What decoding a line gives: "none" (no frame: the line is skipped),
\* "log", "system", "other" (an event of another type or without one),
\* "attribute-error" (the payload is JSON but no object: event.get raises) or
\* "json-error" (an escaping JSONDecodeError).
Frame(data, kind) == [data |-> data, kind |-> kind]

NotAFrame == Frame(EmptyData, "none")

\* Mutant: no try/except around json.loads.
JsonErrorFrame_Raises == Frame(EmptyData, "json-error")

\* except json.JSONDecodeError: continue
JsonErrorFrame == NotAFrame

\* Mutant: whatever is not a log event is handled as a system event.
EventKind_SystemByDefault(type) == IF type = "log" THEN "log" ELSE "system"

\* event_type = event.get("type")
EventKind(type) == IF type \in {"log", "system"} THEN type ELSE "other"

\* The decoding of one line: the prefix test, json.loads, the type and the
\* data of the event.
DecodeFrame(line) ==
    IF Skipped(line) THEN NotAFrame
    ELSE IF JsonInvalid(line) THEN JsonErrorFrame
    ELSE IF line.json = "scalar" THEN Frame(EmptyData, "attribute-error")
    ELSE Frame(line.data, EventKind(line.type))

(***************************************************************************)
(* The body of the stream loop                                             *)
(***************************************************************************)
\* What one iteration does: ctl is "continue", "break" or "raise".
Step(ctl, result, sink, exc) ==
    [ctl |-> ctl, result |-> result, sink |-> sink, exc |-> exc]

\* if self.verbose > 0
VerboseEnabled(v) == v > 0

\* Mutant: the comparison made strict.
LevelQualifies_Strict(level, v) == level < v

\* if level <= self.verbose
LevelQualifies(level, v) == level <= v

\* print(f"[{category}] {message}")
Printed(event_data) == DictGet(event_data.keys, "message", event_data.message, "")

\* Mutant: the message is put before those already printed.
HandleLog_Prepends(event_data, v, result, sink) ==
    IF VerboseEnabled(v)
    THEN IF ~event_data.isdict
         THEN Step("raise", result, sink, AttributeError)
         ELSE IF LevelQualifies(DictGet(event_data.keys, "level", event_data.level, 0), v)
              THEN Step("continue", result, <<Printed(event_data)>> \o sink, NoExc)
              ELSE Step("continue", result, sink, NoExc)
    ELSE Step("continue", result, sink, NoExc)

HandleLog(event_data, v, result, sink) ==
    IF VerboseEnabled(v)
    THEN IF ~event_data.isdict
         THEN Step("raise", result, sink, AttributeError)
         ELSE IF LevelQualifies(DictGet(event_data.keys, "level", event_data.level, 0), v)
              THEN Step("continue", result, Append(sink, Printed(event_data)), NoExc)
              ELSE Step("continue", result, sink, NoExc)
    ELSE Step("continue", result, sink, NoExc)

\* Mutant: the loop does not break on "finished".
AfterStatus_NeverBreaks(status) == "continue"

\* if status == "finished": break
AfterStatus(status) == IF status = "finished" THEN "break" ELSE "continue"

HandleSystem(event_data, result, sink) ==
    IF ~event_data.isdict
    THEN Step("raise", result, sink, AttributeError)
    ELSE LET status == DictGet(event_data.keys, "status", event_data.status, PyNone)
         IN  IF "result" \in event_data.keys
             THEN Step(AfterStatus(status), JsonLoadsValue(event_data.result), sink, NoExc)
             ELSE IF "error" \in event_data.keys
                  THEN Step("raise", result, sink, ErrorFrameFailure(event_data.error))
                  ELSE Step(AfterStatus(status), result, sink, NoExc)

HandleFrame(frame, v, result, sink) ==
    CASE frame.kind = "none" -> Step("continue", result, sink, NoExc)
      [] frame.kind = "json-error" -> Step("raise", result, sink, JSONDecodeError)
      [] frame.kind = "attribute-error" -> Step("raise", result, sink, AttributeError)
      [] frame.kind = "log" -> HandleLog(frame.data, v, result, sink)
      [] frame.kind = "system" -> HandleSystem(frame.data, result, sink)
      [] OTHER -> Step("continue", result, sink, NoExc)

ProcessLine(line, v, result, sink) == HandleFrame(DecodeFrame(line), v, result, sink)

\* Mutant: the check after the loop is missing.
ResultMissing_Never(result) == FALSE

\* Mutant: the check after the loop is inverted.
ResultMissing_Inverted(result) == result # PyNone

\* After the loop: if result is None: raise ...; return result
ResultMissing(result) == result = PyNone

\* The asyncio tasks that call _execute on the handle at the same time.
TaskIds == {"t1", "t2"}

\* One such call: its local result, the exception it raised, where it is
\* suspended ("new" before it is called, "idle" after it ended), the lines
\* it has read from its own response and the value it returned.
Task(result, exc, pc, consumed, ret) ==
    [result |-> result, exc |-> exc, pc |-> pc, consumed |-> consumed, ret |-> ret]

NewTask == Task(PyNone, NoExc, "new", <<>>, NoRet)

\* The keys the caller of init may pass: the two that have a default and
\* another one.
OptionKeys == {"env", "verbose", "model"}

\* init(**options) with these keys: the caller's values differ from every
\* default.
Options(ks) ==
    [k \in ks |-> CASE k = "env" -> "BROWSERBASE"
                    [] k = "verbose" -> 3
                    [] OTHER -> "gpt-4o"]

\* No option; also the dictionaries of a call that is not an init.
NoOptions == Options({})

\* Mutant: the defaults are written over the caller's options.
SessionConfig_DefaultsWin(v, opts) ==
    [k \in {"env", "verbose"} \cup DOMAIN opts |->
        IF k = "env" THEN "LOCAL" ELSE IF k = "verbose" THEN v ELSE opts[k]]

\* session_config = {"env": "LOCAL", "verbose": self.verbose, **options}
SessionConfig(v, opts) ==
    [k \in {"env", "verbose"} \cup DOMAIN opts |->
        IF k \in DOMAIN opts THEN opts[k] ELSE IF k = "env" THEN "LOCAL" ELSE v]

\* The execute_options argument of agent_execute: None, or a dictionary
\* with its contents.
OptionsArg(isnone, mapping) == [isnone |-> isnone, mapping |-> mapping]

NoneArg == OptionsArg(TRUE, NoOptions)

\* What a caller may pass as execute_options: nothing (None), an empty
\* dictionary, or {"maxSteps": 5}.
ExecuteOptionsArgs ==
    { NoneArg,
      OptionsArg(FALSE, NoOptions),
      OptionsArg(FALSE, [k \in {"maxSteps"} |-> 5]) }

\* The truth value of the argument: None and the empty dictionary are false.
ArgTruthy(arg) == ~arg.isnone /\ DOMAIN arg.mapping # {}

\* exec_opts = execute_options or {}; exec_opts["instruction"] = instruction
\* The caller's object after these two lines: a true argument is the very
\* object that is written to, otherwise a new dictionary is.
AfterAgentExecute(arg) ==
    IF ArgTruthy(arg)
    THEN OptionsArg(FALSE, [k \in DOMAIN arg.mapping \cup {"instruction"} |->
                               IF k = "instruction" THEN "book a flight"
                               ELSE arg.mapping[k]])
    ELSE arg

(***************************************************************************)
(* State                                                                   *)
(***************************************************************************)
VARIABLES
    session_id,     \* self.session_id
    verbose,        \* self.verbose
    client_closed,  \* self._client has been closed by aclose()
    pc,             \* where the call in flight is suspended; "idle" between calls
    op,             \* the call in flight, or the last one: "init", "execute", "close"
    pre_sid,        \* session_id when that call began
    sent,           \* the requests that call has sent
    result,         \* _execute's local result
    consumed,       \* the lines _execute has read from the stream
    sink,           \* the lines printed by the call
    ret,            \* the value the call returned
    exc,            \* the exception the call raised
    started,        \* an init of this handle has succeeded
    teardown,       \* how the teardown request of the last close call ended
    eof,            \* the loop of the call reached the end of the stream
    reply,          \* what the transport gave the call: the status, the start body
    decoded,        \* the decoding of the last line the call read
    active_sessions,\* sessions a successful init created and no end request was sent for
    tasks,          \* the concurrent _execute calls: the locals and the outcome of each
    waited,         \* time the call has waited for the status or the next line
    elapsed,        \* time since the call began
    options,        \* the keyword arguments of the init call
    session_config, \* the JSON body init built for the start request
    started_sid,    \* ghost: the identifier the last successful init returned
    ctx,            \* where an `async with` statement on the handle is
    body_exc,       \* the exception that ended the body of the statement
    execute_options,\* the object the caller passed as execute_options, as it is now
    passed_options  \* ghost: what that object held when the call was made

vars == <<session_id, verbose, client_closed, pc, op, pre_sid, sent, result,
          consumed, sink, ret, exc, started, teardown, eof, reply, decoded,
          active_sessions, tasks, waited, elapsed, options, session_config,
          started_sid, ctx, body_exc, execute_options, passed_options>>

Methods == {"navigate", "act", "extract", "observe", "agentExecute"}

SessionIds == {"s1", "s2"}

\* Mutant: the url of a request is built from a fixed identifier, not from
\* the one the handle holds.
Request_FirstSession(endpoint, sid, stream) ==
    [endpoint |-> endpoint, sid |-> IF sid = Absent THEN Absent ELSE "s1",
     stream |-> stream]

\* A request: the endpoint, the session identifier in its url (Absent in the
\* url of /sessions/start), and whether the response is read as a stream.
Request(endpoint, sid, stream) == [endpoint |-> endpoint, sid |-> sid, stream |-> stream]

\* How many lines the model lets a call of the method read.
StreamBound(method) == IF method = "act" THEN MaxLines ELSE MaxLinesOther

\* The answer to the call's request: status is "none" (no answer yet),
\* "failed" (the transport raised), "200" or an error status; body is the
\* JSON body of a 2xx answer to the start request.
Reply(status, body) == [status |-> status, body |-> body]

NoBody == [keys |-> {}, json |-> "none", sessionId |-> Absent]

NoReply == Reply("none", NoBody)

Init ==
    /\ session_id = PyNone
    /\ verbose \in 0..2
    /\ client_closed = FALSE
    /\ pc = "idle"
    /\ op = "none"
    /\ pre_sid = PyNone
    /\ sent = <<>>
    /\ result = PyNone
    /\ consumed = <<>>
    /\ sink = <<>>
    /\ ret = NoRet
    /\ exc = NoExc
    /\ started = FALSE
    /\ teardown = "none"
    /\ eof = FALSE
    /\ reply = NoReply
    /\ decoded = NotAFrame
    /\ active_sessions = 0
    /\ tasks = [t \in TaskIds |-> NewTask]
    /\ waited = 0
    /\ elapsed = 0
    /\ options = NoOptions
    /\ session_config = NoOptions
    /\ started_sid = PyNone
    /\ ctx = "none"
    /\ body_exc = NoExc
    /\ execute_options = NoneArg
    /\ passed_options = NoneArg

\* A call begins: its record is cleared.
Begin(name) ==
    /\ pc = "idle"
    /\ op' = name
    /\ pre_sid' = session_id
    /\ result' = PyNone
    /\ consumed' = <<>>
    /\ sink' = <<>>
    /\ eof' = FALSE
    /\ reply' = NoReply
    /\ decoded' = NotAFrame
    /\ waited' = 0
    /\ elapsed' = 0

\* The call ends by raising e.
Raises(e) == pc' = "idle" /\ exc' = e /\ ret' = NoRet

\* The call ends by returning v.
Returns(v) == pc' = "idle" /\ ret' = v /\ exc' = NoExc

\* The call is suspended at label l.
Awaits(l) == pc' = l /\ ret' = NoRet /\ exc' = NoExc

(***************************************************************************)
(* init                                                                    *)
(***************************************************************************)
\* Mutant: the closed client still sends.
ClientRefuses_Never(closed) == FALSE

\* self._client.post(...) on a client that aclose() has closed: httpx raises
\* RuntimeError before anything is sent.
ClientRefuses(closed) == closed

\* Mutant: only a missing or null sessionId is rejected.
SessionIdMissing_OnlyNone(sid) == sid = PyNone

\* if not self.session_id: raise StagehandAPIError(...)
SessionIdMissing(sid) == ~Truthy(sid)

\* Mutant: init does not look at the session it holds.
InitRejects_Never(sid) == FALSE

\* Mutant: init tests the identifier against None instead of its truth.
InitRejects_NotNone(sid) == sid # PyNone

\* if self.session_id: raise StagehandError("Already initialized...")
InitRejects(sid) == Truthy(sid)

InitCall(ks) ==
    /\ Begin("init")
    /\ options' = Options(ks)
    /\ passed_options' = NoneArg
    /\ execute_options' = NoneArg
    /\ session_config' = IF InitRejects(session_id)
                         THEN NoOptions
                         ELSE SessionConfig(verbose, options')
    /\ IF InitRejects(session_id)
       THEN Raises(AlreadyInitialized) /\ sent' = <<>>
       ELSE IF ClientRefuses(client_closed)
            THEN Raises(ClientClosedError) /\ sent' = <<>>
            ELSE Awaits("init_wait") /\ sent' = <<Request("start", Absent, FALSE)>>
    /\ UNCHANGED <<session_id, verbose, client_closed, started, teardown,
                   active_sessions, tasks, started_sid, ctx, body_exc>>

\* The body of a 2xx answer to the start request.
StartBodies ==
    { [keys |-> {}, json |-> "invalid", sessionId |-> Absent],
      [keys |-> {}, json |-> "scalar", sessionId |-> Absent],
      [keys |-> {}, json |-> "object", sessionId |-> Absent],
      [keys |-> {"sessionId"}, json |-> "object", sessionId |-> PyNone],
      [keys |-> {"sessionId"}, json |-> "object", sessionId |-> ""] }
    \cup { [keys |-> {"sessionId"}, json |-> "object", sessionId |-> s] : s \in SessionIds }

\* The post fails in the transport (httpx.HTTPError).
InitTransportFails ==
    /\ pc = "init_wait"
    /\ reply' = Reply("failed", NoBody)
    /\ Raises(StartConnectionFailure)
    /\ UNCHANGED <<session_id, verbose, client_closed, op, pre_sid, sent, result,
                   consumed, sink, started, teardown, eof, decoded, active_sessions,
                   tasks, waited, elapsed, options, session_config, started_sid, ctx,
                   body_exc, execute_options, passed_options>>

\* A non-2xx status: raise_for_status raises HTTPStatusError, an HTTPError.
InitStatusError(code) ==
    /\ pc = "init_wait"
    /\ reply' = Reply(code, NoBody)
    /\ Raises(StartConnectionFailure)
    /\ UNCHANGED <<session_id, verbose, client_closed, op, pre_sid, sent, result,
                   consumed, sink, started, teardown, eof, decoded, active_sessions,
                   tasks, waited, elapsed, options, session_config, started_sid, ctx,
                   body_exc, execute_options, passed_options>>

InitResponse(body) ==
    /\ pc = "init_wait"
    /\ reply' = Reply("200", body)
    /\ IF body.json = "invalid"
       THEN Raises(JSONDecodeError) /\ UNCHANGED session_id
       ELSE IF body.json = "scalar"
            THEN Raises(AttributeError) /\ UNCHANGED session_id
            ELSE /\ session_id' = DictGet(body.keys, "sessionId", body.sessionId, PyNone)
                 /\ IF SessionIdMissing(session_id')
                    THEN Raises(NoSessionId)
                    ELSE Returns(PyNone)
    /\ started' = (started \/ exc' = NoExc)
    /\ active_sessions' = IF exc' = NoExc THEN active_sessions + 1 ELSE active_sessions
    /\ started_sid' = IF exc' = NoExc THEN session_id' ELSE started_sid
    /\ UNCHANGED <<verbose, client_closed, op, pre_sid, sent, result, consumed, sink,
                   teardown, eof, decoded, tasks, waited, elapsed, options,
                   session_config, ctx, body_exc, execute_options, passed_options>>

(***************************************************************************)
(* close                                                                   *)
(***************************************************************************)
\* Mutant: the session is cleared after the post, not in a finally clause.
SessionAfterTeardown_KeptOnFailure(sid, outcome) ==
    IF outcome \in {"ok", "http_error"} THEN PyNone ELSE sid

\* finally: self.session_id = None
SessionAfterTeardown(sid, outcome) == PyNone

\* Mutant: close posts the end request whatever it holds.
CloseSends_Always(sid) == TRUE

\* if self.session_id: (the teardown post)
CloseSends(sid) == Truthy(sid)

CloseCall ==
    /\ Begin("close")
    /\ options' = NoOptions
    /\ session_config' = NoOptions
    /\ passed_options' = NoneArg
    /\ execute_options' = NoneArg
    /\ teardown' = "none"
    /\ IF CloseSends(session_id)
       THEN /\ Awaits("close_wait")
            /\ sent' = <<Request("end", session_id, FALSE)>>
            /\ active_sessions' = active_sessions - 1
            /\ UNCHANGED client_closed
       ELSE /\ Returns(PyNone)
            /\ sent' = <<>>
            /\ client_closed' = TRUE
            /\ UNCHANGED active_sessions
    /\ UNCHANGED <<session_id, verbose, started, tasks, started_sid, ctx, body_exc>>

\* The teardown post answers (any status: it is not checked), or raises.
TeardownOutcomes == {"ok", "http_error", "timeout", "connect_error"}

CloseResponse(outcome) ==
    /\ pc = "close_wait"
    /\ session_id' = SessionAfterTeardown(session_id, outcome)
    /\ client_closed' = TRUE
    /\ teardown' = outcome
    /\ Returns(PyNone)
    /\ UNCHANGED <<verbose, op, pre_sid, sent, result, consumed, sink, started, eof,
                   reply, decoded, active_sessions, tasks, waited, elapsed, options,
                   session_config, started_sid, ctx, body_exc, execute_options,
                   passed_options>>

(***************************************************************************)
(* _execute                                                                *)
(***************************************************************************)
\* Mutant: the test is "session_id is None".
ExecuteRejects_OnlyNone(sid) == sid = PyNone

\* if not self.session_id: raise StagehandError("Not initialized...")
ExecuteRejects(sid) == ~Truthy(sid)

\* The execute_options a call of the method is given: only agent_execute
\* has the parameter.
ArgsOf(method) == IF method = "agentExecute" THEN ExecuteOptionsArgs ELSE {NoneArg}

\* A wrapper is called: it builds the arguments of the request (agent_execute
\* writes the instruction into exec_opts), then _execute tests the session
\* and sends the request.
ExecuteCall(method, arg) ==
    /\ Begin("execute")
    /\ options' = NoOptions
    /\ session_config' = NoOptions
    /\ passed_options' = arg
    /\ execute_options' = IF method = "agentExecute" THEN AfterAgentExecute(arg) ELSE arg
    /\ IF ExecuteRejects(session_id)
       THEN Raises(NotInitialized) /\ sent' = <<>>
       ELSE Awaits("exec_open") /\ sent' = <<Request(method, session_id, TRUE)>>
    /\ UNCHANGED <<session_id, verbose, client_closed, started, teardown,
                   active_sessions, tasks, started_sid, ctx, body_exc>>

\* Mutant: a request that failed in the transport is sent again.
ExecuteTransportFails_Retries ==
    /\ pc \in {"exec_open", "exec_read"}
    /\ Len(sent) < 2
    /\ sent' = Append(sent, sent[1])
    /\ pc' = "exec_open"
    /\ UNCHANGED <<session_id, verbose, client_closed, op, pre_sid, result, consumed,
                   sink, ret, exc, started, teardown, eof, reply, decoded,
                   active_sessions, tasks, waited, elapsed, options, session_config,
                   started_sid, ctx, body_exc, execute_options, passed_options>>

\* Mutant: a call whose transport failed gives up the session.
ExecuteTransportFails_DropsSession ==
    /\ pc \in {"exec_open", "exec_read"}
    /\ reply' = Reply("failed", NoBody)
    /\ Raises(ConnectionFailure)
    /\ session_id' = PyNone
    /\ UNCHANGED <<verbose, client_closed, op, pre_sid, sent, result,
                   consumed, sink, started, teardown, eof, decoded, active_sessions,
                   tasks, waited, elapsed, options, session_config, started_sid, ctx,
                   body_exc, execute_options, passed_options>>

\* The request or a read fails in the transport (httpx.HTTPError that is no
\* HTTPStatusError): connect failure, reset, timeout.
ExecuteTransportFails ==
    /\ pc \in {"exec_open", "exec_read"}
    /\ reply' = Reply("failed", NoBody)
    /\ Raises(ConnectionFailure)
    /\ UNCHANGED <<session_id, verbose, client_closed, op, pre_sid, sent, result,
                   consumed, sink, started, teardown, eof, decoded, active_sessions,
                   tasks, waited, elapsed, options, session_config, started_sid, ctx,
                   body_exc, execute_options, passed_options>>

\* response.raise_for_status() on a non-2xx status; the body may be unreadable.
ExecuteStatusError(code, readable) ==
    /\ pc = "exec_open"
    /\ reply' = Reply(code, NoBody)
    /\ Raises(HttpStatusFailure(code, readable))
    /\ UNCHANGED <<session_id, verbose, client_closed, op, pre_sid, sent, result,
                   consumed, sink, started, teardown, eof, decoded, active_sessions,
                   tasks, waited, elapsed, options, session_config, started_sid, ctx,
                   body_exc, execute_options, passed_options>>

\* A 2xx status: result = None and the loop starts.
ExecuteStatusOk ==
    /\ pc = "exec_open"
    /\ Awaits("exec_read")
    /\ result' = PyNone
    /\ reply' = Reply("200", NoBody)
    /\ waited' = 0
    /\ UNCHANGED <<session_id, verbose, client_closed, op, pre_sid, sent, consumed, sink,
                   started, teardown, eof, decoded, active_sessions, tasks, elapsed,
                   options, session_config, started_sid, ctx, body_exc,
                   execute_options, passed_options>>

\* After the loop.
Finish(r) == IF ResultMissing(r) THEN Raises(NoResultReceived) ELSE Returns(r)

\* Mutant: a decoder with memory, which drops a line equal to the one before.
ExecuteLine_DecoderRemembers(line) ==
    /\ pc = "exec_read"
    /\ Len(consumed) < StreamBound(sent[1].endpoint)
    /\ consumed' = Append(consumed, line)
    /\ waited' = 0
    /\ decoded' = IF consumed # <<>> /\ consumed[Len(consumed)] = line
                  THEN NotAFrame
                  ELSE DecodeFrame(line)
    /\ LET s == HandleFrame(decoded', verbose, result, sink)
       IN  /\ result' = s.result
           /\ sink' = s.sink
           /\ CASE s.ctl = "continue" -> Awaits("exec_read")
                [] s.ctl = "break" -> Finish(s.result)
                [] s.ctl = "raise" -> Raises(s.exc)
    /\ UNCHANGED <<session_id, verbose, client_closed, op, pre_sid, sent, started,
                   teardown, eof, reply, active_sessions, tasks, elapsed, options,
                   session_config, started_sid, ctx, body_exc, execute_options,
                   passed_options>>

\* One iteration of async for line in response.aiter_lines().
ExecuteLine(line) ==
    /\ pc = "exec_read"
    /\ Len(consumed) < StreamBound(sent[1].endpoint)
    /\ consumed' = Append(consumed, line)
    /\ waited' = 0
    /\ decoded' = DecodeFrame(line)
    /\ LET s == ProcessLine(line, verbose, result, sink)
       IN  /\ result' = s.result
           /\ sink' = s.sink
           /\ CASE s.ctl = "continue" -> Awaits("exec_read")
                [] s.ctl = "break" -> Finish(s.result)
                [] s.ctl = "raise" -> Raises(s.exc)
    /\ UNCHANGED <<session_id, verbose, client_closed, op, pre_sid, sent, started,
                   teardown, eof, reply, active_sessions, tasks, elapsed, options,
                   session_config, started_sid, ctx, body_exc, execute_options,
                   passed_options>>

\* The stream closes: the loop ends.
ExecuteEndOfStream ==
    /\ pc = "exec_read"
    /\ eof' = TRUE
    /\ Finish(result)
    /\ UNCHANGED <<session_id, verbose, client_closed, op, pre_sid, sent, result,
                   consumed, sink, started, teardown, reply, decoded, active_sessions,
                   tasks, waited, elapsed, options, session_config, started_sid, ctx,
                   body_exc, execute_options, passed_options>>

Next ==
    \/ \E ks \in SUBSET OptionKeys : InitCall(ks)
    \/ InitTransportFails
    \/ \E code \in ErrorStatuses : InitStatusError(code)
    \/ \E body \in StartBodies : InitResponse(body)
    \/ CloseCall
    \/ \E outcome \in TeardownOutcomes : CloseResponse(outcome)
    \/ \E method \in Methods : \E arg \in ArgsOf(method) : ExecuteCall(method, arg)
    \/ ExecuteTransportFails
    \/ \E code \in ErrorStatuses, readable \in BOOLEAN : ExecuteStatusError(code, readable)
    \/ ExecuteStatusOk
    \/ \E line \in Lines : ExecuteLine(line)
    \/ ExecuteEndOfStream

Spec == Init /\ [][Next]_vars

(***************************************************************************)
(* Concurrent calls of _execute on an active session: asyncio tasks, which  *)
(* interleave at the awaits (opening the stream, each read of a line).      *)
(***************************************************************************)
\* Everything but the concurrent calls.
serial_vars == <<session_id, verbose, client_closed, pc, op, pre_sid, sent, result,
                 consumed, sink, ret, exc, started, teardown, eof, reply, decoded,
                 active_sessions, waited, elapsed, options, session_config,
                 started_sid, ctx, body_exc, execute_options, passed_options>>

\* The lines of the streams of the concurrent calls.
TaskLines ==
    { LogFrame(1),
      SystemFrame(Absent, "{\"ok\":true}", Absent),
      SystemFrame(Absent, "false", Absent),
      SystemFrame(Absent, Absent, "boom"),
      SystemFrame("finished", Absent, Absent) }

\* Mutant: the pending result is kept on the instance, one for all calls.
ResultSlot_Shared(t) == "t1"

\* result = None: a local variable of the call.
ResultSlot(t) == t

\* The handle holds a session, as after a successful init.
ConcInit ==
    /\ session_id = "s1"
    /\ verbose \in 0..2
    /\ client_closed = FALSE
    /\ pc = "idle"
    /\ op = "init"
    /\ pre_sid = PyNone
    /\ sent = <<Request("start", Absent, FALSE)>>
    /\ result = PyNone
    /\ consumed = <<>>
    /\ sink = <<>>
    /\ ret = PyNone
    /\ exc = NoExc
    /\ started = TRUE
    /\ teardown = "none"
    /\ eof = FALSE
    /\ reply = Reply("200", [keys |-> {"sessionId"}, json |-> "object", sessionId |-> "s1"])
    /\ decoded = NotAFrame
    /\ active_sessions = 1
    /\ tasks = [t \in TaskIds |-> NewTask]
    /\ waited = 0
    /\ elapsed = 0
    /\ options = NoOptions
    /\ session_config = SessionConfig(verbose, NoOptions)
    /\ started_sid = "s1"
    /\ ctx = "none"
    /\ body_exc = NoExc
    /\ execute_options = NoneArg
    /\ passed_options = NoneArg

\* The task ends by raising e.
TaskRaises(k, e) == [k EXCEPT !.pc = "idle", !.exc = e]

\* After the loop: if result is None: raise ...; return result
TaskFinish(k, r) ==
    IF ResultMissing(r) THEN TaskRaises(k, NoResultReceived)
    ELSE [k EXCEPT !.pc = "idle", !.ret = r]

\* The task calls _execute: the guard, then the request is sent.
TaskCall(t) ==
    /\ tasks[t].pc = "new"
    /\ tasks' = [tasks EXCEPT ![t] = IF ExecuteRejects(session_id)
                                     THEN TaskRaises(@, NotInitialized)
                                     ELSE [@ EXCEPT !.pc = "exec_open"]]
    /\ UNCHANGED serial_vars

\* The task's request or stream fails in the transport.
TaskTransportFails(t) ==
    /\ tasks[t].pc \in {"exec_open", "exec_read"}
    /\ tasks' = [tasks EXCEPT ![t] = TaskRaises(@, ConnectionFailure)]
    /\ UNCHANGED serial_vars

\* A 2xx status: result = None, the loop starts.
TaskStatusOk(t) ==
    /\ tasks[t].pc = "exec_open"
    /\ tasks' = [tasks EXCEPT ![ResultSlot(t)].result = PyNone,
                              ![t].pc = "exec_read"]
    /\ UNCHANGED serial_vars

\* One iteration of the task's loop, on a line of its own response.
TaskLine(t, line) ==
    /\ tasks[t].pc = "exec_read"
    /\ Len(tasks[t].consumed) < MaxTaskLines
    /\ LET s == ProcessLine(line, verbose, tasks[ResultSlot(t)].result, <<>>)
       IN  tasks' = [tasks EXCEPT
                        ![ResultSlot(t)].result = s.result,
                        ![t].consumed = Append(@, line),
                        ![t] = CASE s.ctl = "continue" -> @
                                 [] s.ctl = "break" -> TaskFinish(@, s.result)
                                 [] s.ctl = "raise" -> TaskRaises(@, s.exc)]
    /\ UNCHANGED serial_vars

\* The task's stream closes.
TaskEndOfStream(t) ==
    /\ tasks[t].pc = "exec_read"
    /\ tasks' = [tasks EXCEPT ![t] = TaskFinish(@, tasks[ResultSlot(t)].result)]
    /\ UNCHANGED serial_vars

ConcNext ==
    \/ \E t \in TaskIds : TaskCall(t)
    \/ \E t \in TaskIds : TaskTransportFails(t)
    \/ \E t \in TaskIds : TaskStatusOk(t)
    \/ \E t \in TaskIds, line \in TaskLines : TaskLine(t, line)
    \/ \E t \in TaskIds : TaskEndOfStream(t)

ConcSpec == ConcInit /\ [][ConcNext]_vars

(***************************************************************************)
(* One call after another on an active session, with time: httpx applies   *)
(* timeout=self.timeout to each wait for bytes, not to the call.            *)
(***************************************************************************)
\* The handle holds a session, as after a successful init.
TimedInit == ConcInit

\* The lines of the timed streams.
TimedLines ==
    { Line(": keepalive", "invalid", Absent, EmptyData),
      LogFrame(1),
      SystemFrame(Absent, "{\"ok\":true}", Absent),
      SystemFrame("finished", Absent, Absent) }

\* A unit of time passes while the call waits for the status or for the
\* next line, and the wait has not yet lasted self.timeout.
Tick ==
    /\ pc \in {"exec_open", "exec_read"}
    /\ waited < Timeout
    /\ elapsed < MaxClock
    /\ waited' = waited + 1
    /\ elapsed' = elapsed + 1
    /\ UNCHANGED <<session_id, verbose, client_closed, pc, op, pre_sid, sent, result,
                   consumed, sink, ret, exc, started, teardown, eof, reply, decoded,
                   active_sessions, tasks, options, session_config, started_sid, ctx,
                   body_exc, execute_options, passed_options>>

\* The wait has lasted self.timeout: httpx raises a TimeoutException, an
\* httpx.HTTPError.
ReadTimeout ==
    /\ pc \in {"exec_open", "exec_read"}
    /\ waited = Timeout
    /\ reply' = Reply("failed", NoBody)
    /\ Raises(ConnectionFailure)
    /\ UNCHANGED <<session_id, verbose, client_closed, op, pre_sid, sent, result,
                   consumed, sink, started, teardown, eof, decoded, active_sessions,
                   tasks, waited, elapsed, options, session_config, started_sid, ctx,
                   body_exc, execute_options, passed_options>>

TimedNext ==
    \/ ExecuteCall("act", NoneArg)
    \/ ExecuteStatusOk
    \/ \E line \in TimedLines : ExecuteLine(line)
    \/ ExecuteEndOfStream
    \/ Tick
    \/ ReadTimeout

TimedSpec == TimedInit /\ [][TimedNext]_vars

(***************************************************************************)
(* Properties                                                              *)
(***************************************************************************)
\* The last call was an _execute and has ended.
ExecuteDone == op = "execute" /\ pc = "idle"

Range(seq) == { seq[i] : i \in 1..Len(seq) }

\* A decoded system frame (its data an object) that holds the key.
SystemWith(line, key) ==
    /\ line.text = "data: " /\ line.json = "object" /\ line.type = "system"
    /\ line.data.isdict /\ key \in line.data.keys

\* The positions of the stream read so far that hold such a frame.
FramesWith(key) == { i \in 1..Len(consumed) : SystemWith(consumed[i], key) }

Last(seq) == seq[Len(seq)]

Max(S) == CHOOSE x \in S : \A y \in S : y <= x

Min(S) == CHOOSE x \in S : \A y \in S : x <= y

\* C1: an operation call on a handle on which no init has succeeded raises the
\* "Not initialized" StagehandError, whatever the method, and sends no request.
C1_ExecuteBeforeStart ==
    (op = "execute" /\ ~started) =>
        /\ pc = "idle"
        /\ exc = NotInitialized
        /\ ret = NoRet
        /\ sent = <<>>

\* C1 witness: an operation call after a start that failed on an empty
\* sessionId (session_id is "" and no start has succeeded).
C1_Witness ==
    /\ op = "execute" /\ ~started /\ pre_sid = ""
    /\ exc = NotInitialized

\* C2: init on a handle that holds a session raises the "Already initialized"
\* StagehandError, sends no start request and leaves session_id as it was.
C2_SecondInitRejected ==
    (op = "init" /\ Truthy(pre_sid)) =>
        /\ pc = "idle"
        /\ exc = AlreadyInitialized
        /\ ret = NoRet
        /\ sent = <<>>
        /\ session_id = pre_sid

\* C2 witness: a second init after a successful one has been rejected.
C2_Witness ==
    /\ op = "init" /\ started /\ pre_sid \in SessionIds
    /\ exc = AlreadyInitialized

\* C3: close on a handle that holds a session ends without raising and with
\* session_id None and the client closed, however the teardown request ended.
C3_CloseClearsSession ==
    (op = "close" /\ pc = "idle" /\ Truthy(pre_sid)) =>
        /\ teardown \in TeardownOutcomes
        /\ exc = NoExc
        /\ ret = PyNone
        /\ session_id = PyNone
        /\ client_closed

\* C3 witness: a close whose teardown request timed out has returned.
C3_Witness ==
    /\ op = "close" /\ pc = "idle" /\ pre_sid \in SessionIds
    /\ teardown = "timeout"
    /\ session_id = PyNone

\* The stream read is log frames followed by one system frame that holds a
\* result and the status "finished".
LogsThenFinishedResult ==
    /\ Len(consumed) >= 1
    /\ \A i \in 1..(Len(consumed) - 1) : consumed[i] \in { LogFrame(l) : l \in 0..2 }
    /\ SystemWith(Last(consumed), "result")
    /\ Last(consumed).data.status = "finished"

\* C4 (as claimed): after log frames and one system frame with result R and
\* status "finished", the call has returned R, for every R.
C4_FinishedResultReturned ==
    (op = "execute" /\ LogsThenFinishedResult) =>
        /\ pc = "idle"
        /\ exc = NoExc
        /\ ret = JsonLoadsValue(Last(consumed).data.result)

\* C5 (as claimed): when the stream closes after a system frame with a result
\* and without a "finished" status, the call returns the result of the last
\* such frame, for every JSON value.
C5_ResultAtStreamClose ==
    (ExecuteDone /\ eof /\ FramesWith("result") # {}) =>
        /\ exc = NoExc
        /\ ret = JsonLoadsValue(consumed[Max(FramesWith("result"))].data.result)

\* C6: when the stream closes and no system frame with a result was decoded,
\* the call raises StagehandAPIError("No result received from server") and
\* returns nothing.
C6_NoResultAtStreamClose ==
    (ExecuteDone /\ eof /\ FramesWith("result") = {}) =>
        /\ exc = NoResultReceived
        /\ ret = NoRet

\* C6 witness: a stream of a log frame and a frame of another type that holds
\* a result has closed, and the call has failed.
C6_Witness ==
    /\ ExecuteDone /\ eof
    /\ \E l \in LogLines, o \in OtherLines :
          /\ "result" \in o.data.keys
          /\ consumed = <<l, o>>
    /\ exc = NoResultReceived

\* C7 (as claimed): a system frame that holds both a result and an error makes
\* the call fail with the error; the result is not recorded.
C7_ErrorBeforeResult ==
    (op = "execute" /\ consumed # <<>> /\ SystemWith(Last(consumed), "result")
       /\ SystemWith(Last(consumed), "error")) =>
        /\ pc = "idle"
        /\ exc = ErrorFrameFailure(Last(consumed).data.error)
        /\ ret = NoRet
        /\ result # JsonLoadsValue(Last(consumed).data.result)

\* C8 (as claimed): the first system frame with an error that is decoded makes
\* the call fail with that error at once: it is the last line read.
C8_FirstErrorFails ==
    (op = "execute" /\ FramesWith("error") # {}) =>
        /\ Min(FramesWith("error")) = Len(consumed)
        /\ pc = "idle"
        /\ exc = ErrorFrameFailure(consumed[Min(FramesWith("error"))].data.error)
        /\ ret = NoRet

\* C9: an _execute that has ended has either returned a result payload or
\* raised, never both and never neither; one still running has done neither.
C9_ExactlyOneOutcome ==
    (op = "execute") =>
        IF pc = "idle"
        THEN \/ exc = NoExc /\ ret \notin {NoRet, PyNone}
             \/ exc # NoExc /\ ret = NoRet
        ELSE exc = NoExc /\ ret = NoRet

\* C9 witness: a call that had recorded a result has failed on an error frame.
C9_Witness ==
    /\ ExecuteDone
    /\ result # PyNone
    /\ exc = ErrorFrameFailure("boom")
    /\ ret = NoRet

IsFrameLine(line) == line \notin NonFrameLines

\* The loop over a whole sequence of lines, from the state st of the loop.
RECURSIVE RunLines(_, _, _)
RunLines(lines, v, st) ==
    IF lines = <<>> \/ st.ctl # "continue"
    THEN st
    ELSE RunLines(Tail(lines), v, ProcessLine(Head(lines), v, st.result, st.sink))

\* C11: the call stands where the loop over the lines it read WITHOUT the
\* blank, unprefixed and non-JSON ones stands: the same result, the same
\* printed messages, the same failure; none of these lines ends the call.
C11_SkippedLinesChangeNothing ==
    (op = "execute") =>
        LET st == RunLines(SelectSeq(consumed, IsFrameLine), verbose,
                           Step("continue", PyNone, <<>>, NoExc))
        IN  /\ result = st.result
            /\ sink = st.sink
            /\ (st.ctl = "raise") => (pc = "idle" /\ exc = st.exc /\ ret = NoRet)
            /\ (st.ctl = "break") =>
                   /\ pc = "idle"
                   /\ IF st.result = PyNone
                      THEN exc = NoResultReceived /\ ret = NoRet
                      ELSE exc = NoExc /\ ret = st.result
            /\ (st.ctl = "continue" /\ pc = "idle" /\ consumed # <<>>) =>
                   \/ reply.status = "failed" /\ exc = ConnectionFailure
                   \/ /\ eof
                      /\ IF st.result = PyNone
                         THEN exc = NoResultReceived /\ ret = NoRet
                         ELSE exc = NoExc /\ ret = st.result

\* C11 witness: a line that is not JSON, a result frame and a line without
\* the prefix were read, and the call returned the result at the end of the
\* stream.
C11_Witness ==
    /\ ExecuteDone
    /\ eof
    /\ Len(consumed) = 3
    /\ ~IsFrameLine(consumed[1])
    /\ JsonInvalid(consumed[1]) /\ ~Skipped(consumed[1])
    /\ consumed[2] = SystemFrame(Absent, "{\"ok\":true}", Absent)
    /\ Skipped(consumed[3])
    /\ ret = JsonLoadsValue("{\"ok\":true}")

\* What the stream format makes of a line, read off the line alone.
KindOfLine(line) ==
    CASE line \in NonFrameLines -> "none"
      [] line \in ScalarLines -> "attribute-error"
      [] line \in LogLines -> "log"
      [] line \in SystemLines -> "system"
      [] line \in OtherLines -> "other"

\* C12: whatever was read before it and in whichever call, the decoding of
\* the line read last is the one the line alone determines: the same kind,
\* and for an event the data of the line.
C12_DecodingDependsOnLineOnly ==
    (op = "execute" /\ consumed # <<>>) =>
        /\ decoded.kind = KindOfLine(Last(consumed))
        /\ decoded.data = IF decoded.kind \in {"log", "system", "other"}
                          THEN Last(consumed).data
                          ELSE EmptyData

\* C12 witness: the same log frame was read three times in a row by a call
\* of session "s2", and decoded the third time as the log frame it is.
C12_Witness ==
    /\ op = "execute"
    /\ pre_sid = "s2"
    /\ consumed = <<LogFrame(1), LogFrame(1), LogFrame(1)>>
    /\ decoded = Frame(LogFrame(1).data, "log")

\* C13: a call whose request was answered with an error status has failed
\* with a StagehandAPIError whose message carries the status code; it read no
\* line, printed nothing and returned nothing.
C13_ErrorStatusFailsTheCall ==
    (op = "execute" /\ reply.status \in ErrorStatuses) =>
        /\ pc = "idle"
        /\ exc.cls = "StagehandAPIError"
        /\ exc.msg \in {"HTTP " \o reply.status, ("HTTP " \o reply.status) \o ": body"}
        /\ consumed = <<>>
        /\ sink = <<>>
        /\ result = PyNone
        /\ ret = NoRet

\* C13 witness: a call answered with 404 and a readable body has failed.
C13_Witness ==
    /\ ExecuteDone
    /\ reply.status = "404"
    /\ exc = Raise("StagehandAPIError", "HTTP 404: body")

\* C14: a call (init or _execute) whose transport failed has failed with a
\* StagehandConnectionError and returned nothing, whatever it had read; a
\* failed init holds no session.
C14_TransportFailureIsConnectionError ==
    (op \in {"init", "execute"} /\ reply.status = "failed") =>
        /\ pc = "idle"
        /\ exc.cls = "StagehandConnectionError"
        /\ ret = NoRet
        /\ (op = "init") => ~Truthy(session_id)

\* C14 witness: the transport failed after the call had recorded a result.
C14_Witness ==
    /\ ExecuteDone
    /\ reply.status = "failed"
    /\ result = JsonLoadsValue("{\"ok\":true}")
    /\ SystemFrame(Absent, "{\"ok\":true}", Absent) \in Range(consumed)
    /\ exc = ConnectionFailure

\* C15 (as claimed): a failure of init or _execute is one of the client's
\* own: StagehandError (not initialized, already initialized),
\* StagehandConnectionError or StagehandAPIError.
C15_OnlyTypedFailures ==
    (op \in {"init", "execute"} /\ exc # NoExc) =>
        \/ exc \in {NotInitialized, AlreadyInitialized}
        \/ exc.cls \in {"StagehandConnectionError", "StagehandAPIError"}

\* C16: an init answered 200 with a JSON object whose sessionId is missing,
\* null or empty has failed with StagehandAPIError("Server did not return a
\* sessionId"), returned nothing, and left a handle that holds no session
\* and rejects the next _execute.
C16_StartWithoutSessionIdFails ==
    (/\ op = "init"
     /\ reply.status = "200"
     /\ reply.body.json = "object"
     /\ \/ "sessionId" \notin reply.body.keys
        \/ reply.body.sessionId \in {PyNone, ""}) =>
        /\ pc = "idle"
        /\ exc = NoSessionId
        /\ exc.cls = "StagehandAPIError"
        /\ ret = NoRet
        /\ ~Truthy(session_id)
        /\ ExecuteRejects(session_id)

\* C16 witness: the body held "sessionId": "" and init failed.
C16_Witness ==
    /\ op = "init"
    /\ pc = "idle"
    /\ reply.status = "200"
    /\ "sessionId" \in reply.body.keys
    /\ reply.body.sessionId = ""
    /\ session_id = ""
    /\ exc = NoSessionId

\* C17 (as claimed): an init whose start request was answered with an error
\* status has failed with a StagehandAPIError, and the handle holds no
\* session.
C17_StartErrorStatusIsAPIError ==
    (op = "init" /\ reply.status \in ErrorStatuses) =>
        /\ pc = "idle"
        /\ exc.cls = "StagehandAPIError"
        /\ ~Truthy(session_id)

\* C18: no step of an _execute call, from its entry to its end and whatever
\* its outcome, changes the session the handle holds or the state of its
\* client: a step that changes either is a step of init or of close.
C18_ExecuteLeavesSessionAlone ==
    [][ (op' = "execute") =>
            (session_id' = session_id /\ client_closed' = client_closed) ]_vars

\* C18 witness: a call of an active handle failed in the transport, and the
\* handle holds the session it held when the call began.
C18_Witness ==
    /\ ExecuteDone
    /\ exc = ConnectionFailure
    /\ pre_sid \in SessionIds
    /\ session_id = pre_sid

\* C19: an _execute called on a handle that close() has closed, whether the
\* teardown request succeeded, was answered with an error or never got
\* through, has failed with the "Not initialized" StagehandError and sent
\* nothing.
C19_ExecuteAfterCloseRejected ==
    (op = "execute" /\ client_closed) =>
        /\ pc = "idle"
        /\ exc = NotInitialized
        /\ ret = NoRet
        /\ sent = <<>>

\* C19 witness: a session was started, its teardown request timed out, and
\* the call that followed was rejected.
C19_Witness ==
    /\ op = "execute"
    /\ client_closed
    /\ started
    /\ teardown = "timeout"
    /\ exc = NotInitialized
    /\ sent = <<>>

C21_AtMostOneActiveSession ==
    /\ active_sessions \in {0, 1}
    /\ (active_sessions = 1) <=> (Truthy(session_id) /\ pc # "close_wait")

\* C21 witness: with its one session active, the handle was asked to start
\* another and refused.
C21_Witness ==
    /\ op = "init"
    /\ pc = "idle"
    /\ exc = AlreadyInitialized
    /\ active_sessions = 1

\* What a call running alone makes of the result it holds after its loop.
AloneOutcome(k, r) ==
    IF r = PyNone
    THEN k.exc = NoResultReceived /\ k.ret = NoRet
    ELSE k.exc = NoExc /\ k.ret = r

\* C22: under every interleaving of the concurrent calls, each call stands
\* where the loop run alone over the lines of its own stream stands: the
\* same pending result while it reads, the same failure when a frame made
\* it fail, the same returned result or "no result" failure when it ended.
C22_ConcurrentCallsAreIsolated ==
    \A t \in TaskIds :
        LET k == tasks[t]
            st == RunLines(k.consumed, verbose, Step("continue", PyNone, <<>>, NoExc))
        IN  /\ k.result = st.result
            /\ (k.pc = "exec_read") => (st.ctl = "continue" /\ k.exc = NoExc /\ k.ret = NoRet)
            /\ (st.ctl = "raise") => (k.pc = "idle" /\ k.exc = st.exc /\ k.ret = NoRet)
            /\ (st.ctl = "break") => (k.pc = "idle" /\ AloneOutcome(k, st.result))
            /\ (k.pc = "idle" /\ st.ctl = "continue" /\ k.exc # ConnectionFailure) =>
                   AloneOutcome(k, st.result)

\* C22 witness: while the one call held the result it had read from its
\* stream and was still reading, the other read another result from its own
\* stream and returned it at the end of the stream.
C22_Witness ==
    /\ tasks["t1"].pc = "exec_read"
    /\ tasks["t1"].consumed = <<SystemFrame(Absent, "{\"ok\":true}", Absent)>>
    /\ tasks["t1"].result = JsonLoadsValue("{\"ok\":true}")
    /\ tasks["t2"].pc = "idle"
    /\ tasks["t2"].consumed = <<LogFrame(1), SystemFrame(Absent, "false", Absent)>>
    /\ tasks["t2"].ret = JsonLoadsValue("false")

\* C23 (as claimed): a call that is still waiting for the status or for a
\* line began no longer than the timeout ago: when the timeout has elapsed
\* since the call began, the call has ended.
C23_TimeoutBoundsTheCall ==
    (op = "execute" /\ pc \in {"exec_open", "exec_read"}) => elapsed <= Timeout

\* C24: a call of init or of _execute has sent at most one request, and a
\* call that failed has sent exactly the one it failed on, or none when it
\* was refused before sending.
C24_NoRetry ==
    (op \in {"init", "execute"}) =>
        /\ Len(sent) <= 1
        /\ (pc = "idle" /\ exc # NoExc) =>
               (sent = <<>>) <=> (exc \in {NotInitialized, AlreadyInitialized, ClientClosedError})

\* C24 witness: an _execute failed in the transport after its one request.
C24_Witness ==
    /\ ExecuteDone
    /\ exc = ConnectionFailure
    /\ Len(sent) = 1
    /\ sent[1].stream

\* A decoded system frame whose status is "finished".
TerminalFrame(line) == SystemWith(line, "status") /\ line.data.status = "finished"

\* The call ended at the end of the stream or on a "finished" frame.
EndedOnStream ==
    /\ ExecuteDone
    /\ eof \/ (consumed # <<>> /\ TerminalFrame(Last(consumed)))

\* C25 (as claimed): a call that read two or more system frames with a
\* result and no frame with an error, and ended at the end of the stream or
\* on "finished", has returned the result of the last of them.
C25_LastResultWins ==
    (EndedOnStream /\ FramesWith("error") = {} /\ Cardinality(FramesWith("result")) >= 2) =>
        /\ exc = NoExc
        /\ ret = JsonLoadsValue(consumed[Max(FramesWith("result"))].data.result)

\* C26: a "finished" system frame is the last line the call read, and the
\* call has ended: nothing after it is read, printed, recorded or raised.
C26_NothingReadAfterFinished ==
    (op = "execute") =>
        \A i \in 1..Len(consumed) :
            TerminalFrame(consumed[i]) => (i = Len(consumed) /\ pc = "idle")

\* C26 witness: the call returned on a "finished" frame, before the end of
\* the stream and with fewer lines read than the stream may hold.
C26_Witness ==
    /\ ExecuteDone
    /\ ~eof
    /\ consumed = <<SystemFrame(Absent, "false", Absent),
                    SystemFrame("finished", Absent, Absent)>>
    /\ Len(consumed) < MaxLines
    /\ exc = NoExc
    /\ ret = JsonLoadsValue("false")

\* C27 (as claimed): a call that read a "finished" system frame, and no
\* frame with an error, has ended: with the result of the last frame that
\* held one if any frame did, with the "no result" StagehandAPIError if
\* none did; and a call that returned had read a frame with a result.
C27_FinishedDecidesTheCall ==
    /\ (/\ op = "execute"
        /\ consumed # <<>>
        /\ TerminalFrame(Last(consumed))
        /\ FramesWith("error") = {}) =>
           /\ pc = "idle"
           /\ IF FramesWith("result") # {}
              THEN /\ exc = NoExc
                   /\ ret = JsonLoadsValue(consumed[Max(FramesWith("result"))].data.result)
              ELSE exc = NoResultReceived /\ ret = NoRet
    /\ (ExecuteDone /\ exc = NoExc) => FramesWith("result") # {}

\* A line that is no log frame.
IsNotLogLine(line) == line \notin LogLines

\* C28 (as claimed): the call stands where the loop over the lines it read
\* WITHOUT the log frames stands: the same pending result, the same failure
\* or the same returned value, for every verbose.
C28_LogFramesChangeNoOutcome ==
    (op = "execute") =>
        LET st == RunLines(SelectSeq(consumed, IsNotLogLine), verbose,
                           Step("continue", PyNone, <<>>, NoExc))
        IN  /\ result = st.result
            /\ (pc = "exec_read") => (st.ctl = "continue")
            /\ (st.ctl = "raise") => (pc = "idle" /\ exc = st.exc /\ ret = NoRet)
            /\ (st.ctl = "break") =>
                   /\ pc = "idle"
                   /\ IF st.result = PyNone
                      THEN exc = NoResultReceived /\ ret = NoRet
                      ELSE exc = NoExc /\ ret = st.result
            /\ (st.ctl = "continue" /\ pc = "idle" /\ reply.status = "200") =>
                   /\ eof
                   /\ IF st.result = PyNone
                      THEN exc = NoResultReceived /\ ret = NoRet
                      ELSE exc = NoExc /\ ret = st.result

\* The messages of a sequence of log frames.
Messages(frames) == [i \in 1..Len(frames) |-> frames[i].data.message]

\* A log frame whose level is at most verbose.
LevelWithinVerbose(line) ==
    /\ line \in { LogFrame(l) : l \in 0..2 }
    /\ line.data.level <= verbose

\* The same, on a handle that prints at all.
LevelWithinEnabledVerbose(line) == verbose > 0 /\ LevelWithinVerbose(line)

C30_StartBodyIsDefaultsUnderOptions ==
    (op = "init" /\ sent # <<>>) =>
        /\ DOMAIN session_config = {"env", "verbose"} \cup DOMAIN options
        /\ \A k \in DOMAIN options : session_config[k] = options[k]
        /\ ("env" \notin DOMAIN options) => session_config["env"] = "LOCAL"
        /\ ("verbose" \notin DOMAIN options) => session_config["verbose"] = verbose

\* C30 witness: the caller passed env and model and not verbose; the start
\* request was sent and answered with a session.
C30_Witness ==
    /\ op = "init"
    /\ pc = "idle"
    /\ exc = NoExc
    /\ sent = <<Request("start", Absent, FALSE)>>
    /\ DOMAIN options = {"env", "model"}
    /\ session_config["env"] = "BROWSERBASE"
    /\ session_config["model"] = "gpt-4o"
    /\ session_config["verbose"] = verbose

\* C31: a close called on a handle that holds no session (never started,
\* started without success, or closed before) has sent no request, raised
\* nothing and returned, and the handle holds no session and is closed.
C31_CloseWithoutSessionSendsNothing ==
    (op = "close" /\ ~Truthy(pre_sid)) =>
        /\ pc = "idle"
        /\ sent = <<>>
        /\ teardown = "none"
        /\ exc = NoExc
        /\ ret = PyNone
        /\ ~Truthy(session_id)
        /\ client_closed

\* C31 witness: a close of a handle whose session an earlier close had
\* ended.
C31_Witness ==
    /\ op = "close"
    /\ pc = "idle"
    /\ started
    /\ pre_sid = PyNone
    /\ sent = <<>>
    /\ exc = NoExc

\* C32: once init has failed with StagehandConnectionError or
\* StagehandAPIError the handle holds no session identifier, an operation
\* called next is rejected as not initialized, and an init called next is
\* not rejected as already initialized.
C32_FailedInitLeavesUninitialized ==
    (/\ op = "init"
     /\ pc = "idle"
     /\ exc.cls \in {"StagehandConnectionError", "StagehandAPIError"}) =>
        /\ ~Truthy(session_id)
        /\ ExecuteRejects(session_id)
        /\ ~InitRejects(session_id)

\* C32 witness: an init that succeeded on a handle whose earlier init had
\* failed for an empty session identifier.
C32_Witness ==
    /\ op = "init"
    /\ pc = "idle"
    /\ pre_sid = ""
    /\ exc = NoExc
    /\ session_id \in SessionIds
    /\ ~client_closed

(***************************************************************************)
(* Overlapping init calls on one handle                                    *)
(*                                                                         *)
(* Two coroutines call init on the same fresh handle.  A coroutine runs    *)
(* without interruption between two awaits: the guard and the sending of   *)
(* the start request are one step, the handling of the answer another.     *)
(* sent collects the start requests of both calls.                         *)
(***************************************************************************)
\* What the overlapping init calls leave alone.
race_fixed == <<verbose, client_closed, pc, op, pre_sid, result, consumed, sink, ret,
                exc, teardown, eof, reply, decoded, waited, elapsed, options,
                session_config, ctx, body_exc, execute_options, passed_options>>

RaceInit == Init

\* The task calls init: the guard, then the start request is posted.
RaceInitCall(t) ==
    /\ tasks[t].pc = "new"
    /\ IF InitRejects(session_id)
       THEN /\ tasks' = [tasks EXCEPT ![t] = TaskRaises(@, AlreadyInitialized)]
            /\ UNCHANGED sent
       ELSE /\ tasks' = [tasks EXCEPT ![t].pc = "init_wait"]
            /\ sent' = Append(sent, Request("start", Absent, FALSE))
    /\ UNCHANGED <<session_id, started, active_sessions, started_sid>>
    /\ UNCHANGED race_fixed

\* The task's post fails in the transport, or is answered with a non-2xx
\* status.
RaceInitFails(t) ==
    /\ tasks[t].pc = "init_wait"
    /\ tasks' = [tasks EXCEPT ![t] = TaskRaises(@, StartConnectionFailure)]
    /\ UNCHANGED <<session_id, started, active_sessions, sent, started_sid>>
    /\ UNCHANGED race_fixed

\* The task's post is answered 2xx: lines 131-138 run without an await.
RaceInitResponse(t, body) ==
    /\ tasks[t].pc = "init_wait"
    /\ LET sid == DictGet(body.keys, "sessionId", body.sessionId, PyNone)
           e   == CASE body.json = "invalid" -> JSONDecodeError
                    [] body.json = "scalar" -> AttributeError
                    [] OTHER -> IF SessionIdMissing(sid) THEN NoSessionId ELSE NoExc
       IN  /\ session_id' = IF body.json = "object" THEN sid ELSE session_id
           /\ tasks' = [tasks EXCEPT ![t] = IF e = NoExc
                                            THEN [@ EXCEPT !.pc = "idle", !.ret = PyNone]
                                            ELSE TaskRaises(@, e)]
           /\ started' = (started \/ e = NoExc)
           /\ active_sessions' = IF e = NoExc THEN active_sessions + 1
                                 ELSE active_sessions
           /\ started_sid' = IF e = NoExc THEN sid ELSE started_sid
    /\ UNCHANGED sent
    /\ UNCHANGED race_fixed

RaceNext ==
    \/ \E t \in TaskIds : RaceInitCall(t)
    \/ \E t \in TaskIds : RaceInitFails(t)
    \/ \E t \in TaskIds, body \in StartBodies : RaceInitResponse(t, body)

RaceSpec == RaceInit /\ [][RaceNext]_vars

\* C33: whatever the overlap of the init calls on one handle, at most one
\* start request has been sent and at most one session has been created on
\* the server, and of two init calls that are past the guard at least one
\* was rejected as already initialized.
C33_OverlappingInitSendsOneStart ==
    /\ Len(sent) <= 1
    /\ active_sessions <= 1
    /\ \A t, u \in TaskIds :
          (t # u /\ tasks[t].pc # "new" /\ tasks[u].pc # "new") =>
              AlreadyInitialized \in {tasks[t].exc, tasks[u].exc}

\* C34: every end or operation request the handle has sent carries the
\* session identifier that the most recent successful init returned, never
\* another one; no more end requests were sent than inits succeeded, and a
\* close that has sent the end request of the session leaves the handle
\* without it, so a started session is ended by at most one request.
C34_RequestsTargetTheStartedSession ==
    /\ \A i \in 1..Len(sent) :
          sent[i].endpoint # "start" =>
              /\ started
              /\ started_sid \in SessionIds
              /\ sent[i].sid = started_sid
    /\ active_sessions >= 0
    /\ (op = "close" /\ pc = "idle" /\ Len(sent) = 1) =>
          (pre_sid = started_sid /\ ~Truthy(session_id))

\* C34 witness: a close that sent the end request of the session "s2" the
\* init had returned; the request timed out.
C34_Witness ==
    /\ op = "close"
    /\ pc = "idle"
    /\ started_sid = "s2"
    /\ sent = <<Request("end", "s2", FALSE)>>
    /\ teardown = "timeout"
    /\ active_sessions = 0

\* C35: the step of the loop on a decoded frame whose type is neither "log"
\* nor "system", or is missing, changes nothing but the position in the
\* stream: nothing is printed, the pending result is the same, nothing is
\* raised or returned and the call goes on reading, whatever the frame's
\* data holds.
C35_OtherFramesAreIgnored ==
    [][ (/\ pc = "exec_read"
         /\ Len(consumed') = Len(consumed) + 1
         /\ consumed'[Len(consumed')] \in OtherLines) =>
            /\ decoded'.kind = "other"
            /\ sink' = sink
            /\ result' = result
            /\ pc' = "exec_read"
            /\ exc' = NoExc
            /\ ret' = NoRet
            /\ session_id' = session_id ]_vars

\* C35 witness: with printing enabled, a call has read a frame of type
\* "other" whose data holds a result, an error and the status "finished", and
\* goes on reading with no result and nothing printed.
C35_Witness ==
    /\ op = "execute"
    /\ pc = "exec_read"
    /\ verbose = 2
    /\ Len(consumed) = 1
    /\ consumed[1] \in OtherLines
    /\ consumed[1].type = "other"
    /\ consumed[1].data.status = "finished"
    /\ decoded.kind = "other"
    /\ result = PyNone
    /\ sink = <<>>
    /\ exc = NoExc

(***************************************************************************)
(* The handle as an asynchronous context manager                           *)
(*                                                                         *)
(*     async with Stagehand(...) as client:                                *)
(*         body                                                            *)
(*                                                                         *)
(* The statement awaits __aenter__; if that raises, the exception leaves   *)
(* the statement and __aexit__ is not called.  Otherwise the body runs,    *)
(* __aexit__ is awaited however the body ended, and an exception of the    *)
(* body leaves the statement unless __aexit__ returned a true value.       *)
(* ctx is "none", "entering", "body", "exit", and at the end "done",       *)
(* "raised" (the body's exception left the statement) or "enter_raised".   *)
(***************************************************************************)
\* What a step of the statement itself leaves alone.
call_vars == <<session_id, verbose, client_closed, pc, op, pre_sid, sent, result,
               consumed, sink, ret, exc, started, teardown, eof, reply, decoded,
               active_sessions, tasks, waited, elapsed, options, session_config,
               started_sid, execute_options, passed_options>>

WithInit == Init

\* The lines of the streams of the operations of the body.
BodyLines ==
    { LogFrame(1),
      SystemFrame("finished", "{\"ok\":true}", Absent),
      SystemFrame("error", Absent, "boom") }

\* An exception of the body that no operation of the handle raised.
BodyError == Raise("ValueError", "body")

\* Mutant: __aexit__ returns a true value.
AExitReturn_True == "True"

\* __aexit__ has no return statement: it returns None.
AExitReturn == PyNone

\* The statement is entered: __aenter__ is awaited.
WithEnter ==
    /\ ctx = "none"
    /\ pc = "idle"
    /\ ctx' = "entering"
    /\ UNCHANGED body_exc
    /\ UNCHANGED call_vars

\* __aenter__: await self.init()
AEnterInit ==
    /\ ctx = "entering"
    /\ op = "none"
    /\ InitCall({})

\* __aenter__: return self, or the exception of init leaves the statement.
AEnterReturns ==
    /\ ctx = "entering"
    /\ op = "init"
    /\ pc = "idle"
    /\ ctx' = IF exc = NoExc THEN "body" ELSE "enter_raised"
    /\ UNCHANGED body_exc
    /\ UNCHANGED call_vars

\* The body calls an operation of the handle.
BodyCall ==
    /\ ctx = "body"
    /\ ExecuteCall("act", NoneArg)

\* How the body may end: normally, with an exception of its own, or with
\* the exception of the operation it called last.
BodyEndings == {"returns", "raises", "operation raises"}

BodyEnds(how) ==
    /\ ctx = "body"
    /\ pc = "idle"
    /\ how = "operation raises" => (op = "execute" /\ exc # NoExc)
    /\ ctx' = "exit"
    /\ body_exc' = CASE how = "returns" -> NoExc
                     [] how = "raises" -> BodyError
                     [] how = "operation raises" -> exc
    /\ UNCHANGED call_vars

\* __aexit__: await self.close()
AExitClose ==
    /\ ctx = "exit"
    /\ op # "close"
    /\ CloseCall

\* __aexit__ returns: the exception of the body leaves the statement unless
\* the returned value is true.
AExitReturns ==
    /\ ctx = "exit"
    /\ op = "close"
    /\ pc = "idle"
    /\ ctx' = IF body_exc # NoExc /\ ~Truthy(AExitReturn) THEN "raised" ELSE "done"
    /\ UNCHANGED body_exc
    /\ UNCHANGED call_vars

WithNext ==
    \/ WithEnter
    \/ AEnterInit
    \/ InitTransportFails
    \/ \E code \in ErrorStatuses : InitStatusError(code)
    \/ \E body \in StartBodies : InitResponse(body)
    \/ AEnterReturns
    \/ BodyCall
    \/ ExecuteTransportFails
    \/ \E code \in ErrorStatuses, readable \in BOOLEAN : ExecuteStatusError(code, readable)
    \/ ExecuteStatusOk
    \/ \E line \in BodyLines : ExecuteLine(line)
    \/ ExecuteEndOfStream
    \/ \E how \in BodyEndings : BodyEnds(how)
    \/ AExitClose
    \/ \E outcome \in TeardownOutcomes : CloseResponse(outcome)
    \/ AExitReturns

WithSpec == WithInit /\ [][WithNext]_vars

\* C36: the body of the statement runs on a handle that init has given a
\* session; and however the body ended, when the statement is left after it
\* the end request of that session has been sent, the handle holds no
\* session and its client is closed, and an exception of the body has left
\* the statement.
C36_ContextManagerAlwaysEnds ==
    /\ ctx \in {"body", "exit"} => started /\ started_sid \in SessionIds
    /\ ctx = "body" => session_id = started_sid
    /\ ctx \in {"done", "raised"} =>
          /\ op = "close"
          /\ sent = <<Request("end", started_sid, FALSE)>>
          /\ teardown # "none"
          /\ active_sessions = 0
          /\ ~Truthy(session_id)
          /\ client_closed
          /\ (ctx = "raised") = (body_exc # NoExc)

\* C36 witness: the body was ended by the failure of an operation, the end
\* request timed out, and the failure has left the statement with the
\* handle closed.
C36_Witness ==
    /\ ctx = "raised"
    /\ body_exc = ErrorFrameFailure("boom")
    /\ op = "close"
    /\ teardown = "timeout"
    /\ ~Truthy(session_id)
    /\ client_closed

\* C37: the object the caller passed as execute_options holds, during the
\* call and after it has returned or failed, exactly what it held when the
\* call was made.
C37_CallerOptionsUntouched ==
    execute_options = passed_options

====
